---- MODULE Spec2Model ----
(***************************************************************************)
(* A model of the HiBid crawl engine (src/hibid_scraper/scraper.py):       *)
(* HiBidScraper._fetch_page, _extract_apollo_state,                        *)
(* _extract_lots_from_apollo, _get_item_id, _enrich_lot_data,              *)
(* scrape_category and scrape_all.                                         *)
(*                                                                         *)
(* Python values are tagged records, a dict is a function from attribute   *)
(* names to values, the Apollo cache is the sequence of its (key, value)   *)
(* entries in iteration order.  The two generators are one state machine   *)
(* whose steps are the fetch attempts, the processing of a fetched page,   *)
(* each pass through the emission loop, and the code run between them.     *)
(***************************************************************************)
EXTENDS Integers, Sequences, FiniteSets, TLC

(* ------------------------------ bounds -------------------------------- *)
MaxCats == 3      \* longest configured category list
MaxLimit == 3     \* largest test_limit tried
MaxServed == 2    \* bodies the server sends in a session before it goes down
MaxItems == 2     \* records main receives in a run
MaxLiveCats == 2  \* longest category list of a session with a server that never goes down

(* ------------------------- program constants -------------------------- *)
ITEMS_PER_PAGE == 100
retries == 3
BackoffSeconds == 5

(* --------------------------- Python values ---------------------------- *)
PyNone == [t |-> "none"]
PyStr(s) == [t |-> "str", s |-> s]
PyInt(n) == [t |-> "int", n |-> n]
PyDict(d) == [t |-> "dict", d |-> d]
EmptyDict == [k \in {} |-> PyNone]
Ref(key) == PyDict("__ref" :> PyStr(key))

isdict(v) == v.t = "dict"

\* bool(v)
truthy(v) ==
    CASE v.t = "none" -> FALSE
      [] v.t = "str" -> v.s # ""
      [] v.t = "int" -> v.n # 0
      [] v.t = "dict" -> DOMAIN v.d # {}

\* str(v), as used by str(item[field]) and by the f-strings
pystr(v) ==
    CASE v.t = "none" -> "None"
      [] v.t = "str" -> v.s
      [] v.t = "int" -> ToString(v.n)
      [] v.t = "dict" -> "{...}"

\* d.get(k, default)
get(d, k, default) == IF k \in DOMAIN d THEN d[k] ELSE default

\* d[k] = v on a copy of d
put(d, k, v) == [x \in DOMAIN d \cup {k} |-> IF x = k THEN v ELSE d[x]]

\* d without k (the dict after d.pop(k))
without(d, k) == [x \in DOMAIN d \ {k} |-> d[x]]

\* value == "text" for a value that may be of any type
is_str(v, text) == v.t = "str" /\ v.s = text

(* ------------------------------ strings ------------------------------- *)
\* The text that may follow a prefix in a cache key of the model.
Suffixes ==
    {ToString(i) : i \in 0..(ITEMS_PER_PAGE + 1)} \cup {"junk", "x"}

\* The keys of the model that start with each prefix the code asks about.
KeysWith == [prefix \in {"Auction:", "Lot:"} |-> {prefix \o r : r \in Suffixes}]

\* key.startswith(prefix)
startswith(key, prefix) == key \in KeysWith[prefix]

\* key.replace(prefix, "") for a key that starts with prefix
strip_prefix(key, prefix) == CHOOSE r \in Suffixes : key = prefix \o r

(* -------------------- _extract_lots_from_apollo ----------------------- *)
\* An entry of the cache: [key |-> <cache key>, value |-> <Python value>].
has_key(apollo_state, key) ==
    \E i \in 1..Len(apollo_state) : apollo_state[i].key = key

lookup(apollo_state, key) ==
    apollo_state[CHOOSE i \in 1..Len(apollo_state) : apollo_state[i].key = key].value

\* The test of the first pass: the entry is an Auction.
is_auction(key, value) ==
    /\ isdict(value)
    /\ \/ is_str(get(value.d, "__typename", PyNone), "Auction")
       \/ startswith(key, "Auction:")

\* Variant of auction_alias: no normalized key, the cache key again.
auction_alias_raw(key, value) == key

\* f"Auction:{auction_id}"
auction_alias(key, value) ==
    IF startswith(key, "Auction:")
    THEN "Auction:" \o strip_prefix(key, "Auction:")
    ELSE "Auction:" \o pystr(get(value.d, "id", PyNone))

\* First pass: the auctions dict.  Each Auction entry is stored under its key
\* and under its alias; a later assignment overwrites an earlier one.
names_auction(apollo_state, i, k) ==
    /\ is_auction(apollo_state[i].key, apollo_state[i].value)
    /\ k \in {apollo_state[i].key,
              auction_alias(apollo_state[i].key, apollo_state[i].value)}

last_named(apollo_state, k) ==
    CHOOSE i \in 1..Len(apollo_state) :
        /\ names_auction(apollo_state, i, k)
        /\ \A j \in (i + 1)..Len(apollo_state) : ~names_auction(apollo_state, j, k)

collect_auctions(apollo_state) ==
    LET idx == {i \in 1..Len(apollo_state) :
                    is_auction(apollo_state[i].key, apollo_state[i].value)}
        ks == {apollo_state[i].key : i \in idx}
                \cup {auction_alias(apollo_state[i].key, apollo_state[i].value) : i \in idx}
    IN [k \in ks |-> apollo_state[last_named(apollo_state, k)].value]

\* The test of the second pass: the entry is a Lot.
is_lot(key, value) ==
    /\ isdict(value)
    /\ \/ is_str(get(value.d, "__typename", PyNone), "Lot")
       \/ startswith(key, "Lot:")

\* x is a dict that has a "__ref" key
is_ref(x) == isdict(x) /\ "__ref" \in DOMAIN x.d

\* ref_key in auctions (the keys of the dict are strings)
in_dict(ref_key, auctions) == ref_key.t = "str" /\ ref_key.s \in DOMAIN auctions

\* ref_key in apollo_state
in_cache(ref_key, apollo_state) == ref_key.t = "str" /\ has_key(apollo_state, ref_key.s)

\* Resolve auction reference
resolve_auction(lot, auctions) ==
    LET auction_ref == get(lot, "auction", PyDict(EmptyDict))
    IN IF is_ref(auction_ref) /\ in_dict(auction_ref.d["__ref"], auctions)
       THEN put(lot, "_resolved_auction", auctions[auction_ref.d["__ref"].s])
       ELSE lot

\* Variant of resolve_lot_state: the reference is looked up among the
\* Auction entities only.
resolve_lot_state_in_auctions(lot, apollo_state) ==
    LET lot_state_ref == get(lot, "lotState", PyDict(EmptyDict))
        auctions == collect_auctions(apollo_state)
    IN IF is_ref(lot_state_ref) /\ in_dict(lot_state_ref.d["__ref"], auctions)
       THEN put(lot, "_resolved_lotState", auctions[lot_state_ref.d["__ref"].s])
       ELSE lot

\* Also resolve lotState reference if present
resolve_lot_state(lot, apollo_state) ==
    LET lot_state_ref == get(lot, "lotState", PyDict(EmptyDict))
    IN IF is_ref(lot_state_ref) /\ in_cache(lot_state_ref.d["__ref"], apollo_state)
       THEN put(lot, "_resolved_lotState",
                lookup(apollo_state, lot_state_ref.d["__ref"].s))
       ELSE lot

\* Second pass: the list of the lot dicts, in the order of the cache.
is_lot_entry(e) == is_lot(e.key, e.value)

collect_lots(apollo_state, auctions) ==
    LET found == SelectSeq(apollo_state, is_lot_entry)
    IN [j \in 1..Len(found) |->
          resolve_lot_state(resolve_auction(found[j].value.d, auctions), apollo_state)]

extract_lots_from_apollo(apollo_state) ==
    collect_lots(apollo_state, collect_auctions(apollo_state))

(* --------------------------- _get_item_id ----------------------------- *)
\* Variant of id_field: itemId is tried before id.
id_field_item_first(item) ==
    IF "itemId" \in DOMAIN item /\ truthy(item["itemId"]) THEN "itemId"
    ELSE IF "id" \in DOMAIN item /\ truthy(item["id"]) THEN "id"
    ELSE IF "eventItemId" \in DOMAIN item /\ truthy(item["eventItemId"]) THEN "eventItemId"
    ELSE ""

\* The first of the candidate fields that is present and truthy, if any.
id_field(item) ==
    IF "id" \in DOMAIN item /\ truthy(item["id"]) THEN "id"
    ELSE IF "itemId" \in DOMAIN item /\ truthy(item["itemId"]) THEN "itemId"
    ELSE IF "eventItemId" \in DOMAIN item /\ truthy(item["eventItemId"]) THEN "eventItemId"
    ELSE ""

\* The item id as a Python value: a str, or None.
get_item_id(item) ==
    IF id_field(item) # "" THEN PyStr(pystr(item[id_field(item)]))
    ELSE IF is_str(get(item, "__typename", PyStr("")), "Lot") /\ "id" \in DOMAIN item
    THEN PyStr("lot-" \o pystr(item["id"]))
    ELSE PyNone

\* The identifiers that can be derived for the lots of a list.
IdsOn(ls) ==
    {get_item_id(ls[i]).s : i \in {j \in 1..Len(ls) : truthy(get_item_id(ls[j]))}}

\* The number of lots of a list for which none can be derived.
Anonymous(ls) == Cardinality({j \in 1..Len(ls) : ~truthy(get_item_id(ls[j]))})

(* -------------------------- _enrich_lot_data -------------------------- *)
\* if key in enriched: enriched[to] = enriched.pop(key)
move_key(enriched, key, to) ==
    IF key \in DOMAIN enriched
    THEN put(without(enriched, key), to, enriched[key])
    ELSE enriched

\* Variant of move_ref: the reference is removed and not kept.
move_ref_dropping(enriched, key, to) ==
    IF key \in DOMAIN enriched /\ is_ref(enriched[key])
    THEN without(enriched, key)
    ELSE enriched

\* if key is a dict holding "__ref": enriched[to] = enriched.pop(key)["__ref"]
move_ref(enriched, key, to) ==
    IF key \in DOMAIN enriched /\ is_ref(enriched[key])
    THEN put(without(enriched, key), to, enriched[key].d["__ref"])
    ELSE enriched

\* Variant of enrich_lot_data: a reference that was resolved is not kept.
enrich_lot_data_exclusive(lot) ==
    LET moved == move_key(move_key(lot, "_resolved_auction", "auction_data"),
                          "_resolved_lotState", "lot_state_data")
        first == IF "auction_data" \in DOMAIN moved
                 THEN move_ref_dropping(moved, "auction", "auction_ref")
                 ELSE move_ref(moved, "auction", "auction_ref")
    IN IF "lot_state_data" \in DOMAIN first
       THEN move_ref_dropping(first, "lotState", "lot_state_ref")
       ELSE move_ref(first, "lotState", "lot_state_ref")

enrich_lot_data(lot) ==
    move_ref(
        move_ref(
            move_key(move_key(lot, "_resolved_auction", "auction_data"),
                     "_resolved_lotState", "lot_state_data"),
            "auction", "auction_ref"),
        "lotState", "lot_state_ref")

(* ------------------------ _extract_apollo_state ----------------------- *)
\* A response body is [kind |-> ..., state |-> <the JSON value it embeds>]:
\*   "blank"         the empty text
\*   "no_script"     a document without <script id="hibid-state">
\*   "empty_script"  the script element has no text
\*   "bad_json"      its text is not JSON (json.JSONDecodeError)
\*   "not_object"    its text is JSON, but no object (.get raises)
\*   "no_state_key"  a JSON object without "apollo.state"
\*   "state"         a JSON object whose "apollo.state" is the object `state`
\*   "state_list"    a JSON object whose "apollo.state" is a non-empty list
Body(kind, state) == [kind |-> kind, state |-> state]

\* Variant of extract_apollo_state: a missing state block counts as an error.
extract_apollo_state_strict(html) ==
    CASE html.kind \in {"no_script", "empty_script", "bad_json", "not_object"} ->
            [type |-> "none", state |-> << >>, errors |-> 1]
      [] html.kind = "no_state_key" ->
            [type |-> "dict", state |-> << >>, errors |-> 0]
      [] html.kind = "state_list" ->
            [type |-> "list", state |-> html.state, errors |-> 0]
      [] OTHER ->
            [type |-> "dict", state |-> html.state, errors |-> 0]

\* The value returned, of type "none", "dict" or "list", with what was added
\* to stats.errors.
extract_apollo_state(html) ==
    CASE html.kind \in {"no_script", "empty_script"} ->
            [type |-> "none", state |-> << >>, errors |-> 0]
      [] html.kind \in {"bad_json", "not_object"} ->
            [type |-> "none", state |-> << >>, errors |-> 1]
      [] html.kind = "no_state_key" ->
            [type |-> "dict", state |-> << >>, errors |-> 0]
      [] html.kind = "state_list" ->
            [type |-> "list", state |-> html.state, errors |-> 0]
      [] OTHER ->
            [type |-> "dict", state |-> html.state, errors |-> 0]

(* ----------------------------- _build_url ----------------------------- *)
NoCategory == "None"     \* Python's None as a category

\* Variant of build_url: the page asked for is always the first.
build_url_first_page(config, category, page) ==
    [path |-> IF category # NoCategory /\ category # ""
              THEN "/lots/" \o category \o "/" ELSE "/lots/",
     status |-> "open", zip |-> config.zip_code, miles |-> config.radius_miles,
     apage |-> 1, ipp |-> ITEMS_PER_PAGE]

\* Variant of build_url: the category is left out of the path.
build_url_all_lots(config, category, page) ==
    [path |-> "/lots/",
     status |-> "open", zip |-> config.zip_code, miles |-> config.radius_miles,
     apage |-> page, ipp |-> ITEMS_PER_PAGE]

build_url(config, category, page) ==
    [path |-> IF category # NoCategory /\ category # ""
              THEN "/lots/" \o category \o "/" ELSE "/lots/",
     status |-> "open", zip |-> config.zip_code, miles |-> config.radius_miles,
     apage |-> page, ipp |-> ITEMS_PER_PAGE]

(* ------------------------- the server's answers ----------------------- *)
LotKey(i) == "Lot:" \o ToString(i)
Entry(key, d) == [key |-> key, value |-> PyDict(d)]
Typed(typename) == "__typename" :> PyStr(typename)

\* The example of the specification, section 8.
ExampleCache ==
    << Entry("Auction:1", Typed("Auction") @@ ("eventName" :> PyStr("Spring Sale"))),
       Entry("Lot:100", Typed("Lot") @@ ("id" :> PyStr("100"))
                          @@ ("auction" :> Ref("Auction:1"))) >>

\* Forward, aliased and dangling references, a lot without identifier, a lot
\* whose id is falsy, and an entry that is no dict.
MixedCache ==
    << Entry("Lot:7", Typed("Lot") @@ ("id" :> PyInt(7)) @@ ("title" :> PyStr("chair"))
                        @@ ("auction" :> Ref("Auction:9"))
                        @@ ("lotState" :> Ref("LotState:7"))),
       Entry("Evt:9", Typed("Auction") @@ ("id" :> PyInt(9))
                        @@ ("eventName" :> PyStr("Estate"))),
       Entry("LotState:7", Typed("LotState") @@ ("status" :> PyStr("OPEN"))),
       Entry("Lot:8", ("itemId" :> PyStr("8")) @@ ("auction" :> Ref("Auction:404"))
                        @@ ("lotState" :> Ref("LotState:404"))),
       [key |-> "Lot:junk", value |-> PyStr("junk")],
       Entry("Lot:x", Typed("Lot") @@ ("title" :> PyStr("lamp"))
                        @@ ("auction" :> Ref("Auction:404"))),
       Entry("Lot:0", Typed("Lot") @@ ("id" :> PyInt(0))
                        @@ ("lotState" :> Ref("Evt:9"))) >>

\* Two Auction entities that both answer to the key "Auction:1".
TwinCache ==
    << Entry("Auction:1", Typed("Auction") @@ ("eventName" :> PyStr("Spring Sale"))),
       Entry("Lot:100", ("id" :> PyInt(100)) @@ ("auction" :> Ref("Auction:1"))),
       Entry("Evt:1", Typed("Auction") @@ ("id" :> PyStr("1"))
                        @@ ("eventName" :> PyStr("Fall Sale"))) >>

HalfPage == ITEMS_PER_PAGE \div 2

\* HalfPage raw lots that share the identifiers "1" and "2".
FullCache12 ==
    [i \in 1..HalfPage |->
        Entry(LotKey(i), Typed("Lot") @@ ("id" :> PyStr(ToString(1 + (i % 2)))))]

\* HalfPage raw lots: one without identifier, the others 2 and 3 (integers).
FullCache23 ==
    [i \in 1..HalfPage |->
        IF i = 1 THEN Entry(LotKey(i), Typed("Lot"))
        ELSE Entry(LotKey(i), Typed("Lot") @@ ("id" :> PyInt(2 + (i % 2))))]

\* One raw lot short of HalfPage, identifiers "3" and "4".
PartialCache34 ==
    [i \in 1..(HalfPage - 1) |->
        Entry(LotKey(i), Typed("Lot") @@ ("id" :> PyStr(ToString(3 + (i % 2)))))]

\* A cache whose lots all lack an identifier.
AnonymousCache ==
    << Entry("Lot:x", Typed("Lot") @@ ("title" :> PyStr("lamp"))) >>

\* Lots that differ in the candidate fields they carry: an empty id before
\* an itemId, an id beside an itemId, an eventItemId alone, an itemId beside
\* an eventItemId, a typed lot whose id is empty, an untyped lot whose id is 0.
\* The third lot comes with an attribute auction_data of its own beside a
\* dangling reference, the fourth with an attribute auction_ref of its own
\* beside one, and the status of the second is a plain text.
IdCache ==
    << Entry("Lot:1", Typed("Lot") @@ ("id" :> PyStr("")) @@ ("itemId" :> PyStr("11"))
                        @@ ("eventItemId" :> PyStr("12"))),
       Entry("Lot:2", Typed("Lot") @@ ("id" :> PyInt(2)) @@ ("itemId" :> PyStr("21"))
                        @@ ("lotState" :> PyStr("OPEN"))),
       Entry("Lot:3", Typed("Lot") @@ ("eventItemId" :> PyStr("33"))
                        @@ ("auction" :> Ref("Auction:404"))
                        @@ ("auction_data" :> PyStr("own"))),
       Entry("Lot:4", ("itemId" :> PyInt(41)) @@ ("eventItemId" :> PyStr("42"))
                        @@ ("auction" :> Ref("Auction:404"))
                        @@ ("auction_ref" :> PyStr("own"))),
       Entry("Lot:5", Typed("Lot") @@ ("id" :> PyStr(""))),
       Entry("Lot:6", ("id" :> PyInt(0)) @@ ("title" :> PyStr("vase"))) >>

Caches ==
    {ExampleCache, MixedCache, TwinCache, FullCache12, FullCache23,
     PartialCache34, AnonymousCache, IdCache}

\* _extract_lots_from_apollo, and the identifiers it leads to, on each cache
\* the server can send (computed once).
LotsOf == [c \in Caches |-> extract_lots_from_apollo(c)]
IdsOf == [c \in Caches |-> IdsOn(LotsOf[c])]
AnonymousOf == [c \in Caches |-> Anonymous(LotsOf[c])]

Bodies ==
    {Body(k, << >>) : k \in {"blank", "no_script", "empty_script", "bad_json",
                             "not_object", "no_state_key", "state"}}
    \cup {Body("state", c) : c \in Caches}
    \cup {Body("state_list", <<PyInt(1)>>)}

NoBody == Body("none", << >>)     \* html is None, or no text waits to be processed

(* ------------------------------ the state ----------------------------- *)
VARIABLES
    config,        \* Config: search_categories, test_mode, test_limit, ...
    stats,         \* self.stats (ScrapeStats)
    pc,            \* where the generators stand
    ci,            \* scrape_all: position of `category` in categories
    page,          \* scrape_category locals
    total_items,
    seen_ids,
    apollo_state,
    lots,
    new_lots,      \* the lots kept, as their positions in lots
    li,            \* position of `lot` in new_lots (the emission loop)
    url,           \* _fetch_page: the url asked for
    attempt,       \* _fetch_page: the attempt being made (0-based)
    html,          \* what _fetch_page returned
    out,           \* the tuple the generator is suspended on
    responses,     \* history: the server's answers to this _fetch_page call
    sleeps,        \* history: the time.sleep calls of this _fetch_page call
    delayed,       \* history: _delay was called since the last request
    served,        \* history: bodies the server has sent in this session
    yielded,       \* history: records handed to the caller in this session
    cat_out,       \* history: <<id, page>> of the records of this category
    fetched,       \* history: the pages requested in this category
    page_log,      \* history: per processed page of this category
    errors0,       \* history: stats.errors when this category began
    failures,      \* history: fetches given up and extraction errors of this
                   \*          category
    stop,          \* history: why this category's loop ended ("" while it runs)
    earlier,       \* history: the identifiers handed over in earlier categories
    mpc,           \* main: where it stands ("idle": main is not modelled)
    run_id,        \* main: the id of the run record, 0 for None
    items_added,   \* main: locals
    items_updated,
    received,      \* main: the tuple received from scrape_all
    scrape_runs,   \* Database: the rows of table scrape_runs
    auction_items, \* Database: the rows of table auction_items
    now,           \* the clock read by datetime.now
    ret,           \* history: what the last upsert_item returned
    prev,          \* history: the tuple of the upsert before the last
    exit_code      \* what main returned (-1 while it runs)

vars ==
    <<config, stats, pc, ci, page, total_items, seen_ids, apollo_state, lots,
      new_lots, li, url, attempt, html, out, responses, sleeps, delayed,
      served, yielded, cat_out, fetched, page_log, errors0, failures, stop,
      earlier, mpc, run_id, items_added, items_updated, received, scrape_runs, auction_items,
      now, ret, prev, exit_code>>

\* The state of main and of the database.
mainvars ==
    <<mpc, run_id, items_added, items_updated, received, scrape_runs, auction_items,
      now, ret, prev, exit_code>>

\* The state of the scraper other than its stats.
crawlvars ==
    <<config, pc, ci, page, total_items, seen_ids, apollo_state, lots, new_lots,
      li, url, attempt, html, out, responses, sleeps, delayed, served, yielded,
      cat_out, fetched, page_log, errors0, failures, stop, earlier>>

CategoryNames == {"tools", "coins"}

RECURSIVE SeqsUpTo(_, _)
SeqsUpTo(S, n) ==
    IF n = 0 THEN {<< >>}
    ELSE SeqsUpTo(S, n - 1)
         \cup {Append(q, x) : q \in {r \in SeqsUpTo(S, n - 1) : Len(r) = n - 1}, x \in S}

\* The category lists tried: up to MaxCats names, one name repeated or two
\* names in turn.
CategoryLists ==
    {q \in SeqsUpTo(CategoryNames, MaxCats) :
        \/ \A i \in 1..Len(q) : q[i] = "tools"
        \/ \A i \in 1..Len(q) : q[i] = IF i % 2 = 1 THEN "tools" ELSE "coins"}

Configs ==
    [zip_code : {"12345"}, radius_miles : {50},
     search_categories : CategoryLists,
     test_mode : BOOLEAN, test_limit : 0..MaxLimit]

\* categories = self.config.search_categories or [None]
categories_of(cfg) ==
    IF cfg.search_categories = << >> THEN <<NoCategory>> ELSE cfg.search_categories

categories == categories_of(config)
category == categories[ci]

NoOut == [item_id |-> "", item |-> EmptyDict, category |-> "", page |-> 0, src |-> 0]

NoItem == [item_id |-> "", raw_json |-> << >>, category |-> ""]
NoRet == [is_new |-> FALSE, is_updated |-> FALSE]

\* main has not been entered: the scraper is driven by its caller alone.
MainIdle ==
    /\ mpc = "idle"
    /\ run_id = 0
    /\ items_added = 0
    /\ items_updated = 0
    /\ received = NoItem
    /\ scrape_runs = << >>
    /\ auction_items = << >>
    /\ now = 0
    /\ ret = NoRet
    /\ prev = NoItem
    /\ exit_code = -1

\* HiBidScraper(config) has been constructed.
ScraperNew ==
    /\ stats = [items_found |-> 0, items_added |-> 0, items_updated |-> 0,
                errors |-> 0, pages_scraped |-> 0]
    /\ pc = "start_category"
    /\ ci = 1
    /\ page = 1
    /\ total_items = 0
    /\ seen_ids = {}
    /\ apollo_state = << >>
    /\ lots = << >>
    /\ new_lots = << >>
    /\ li = 1
    /\ url = build_url(config, categories_of(config)[1], 1)
    /\ attempt = 0
    /\ html = NoBody
    /\ out = NoOut
    /\ responses = << >>
    /\ sleeps = << >>
    /\ delayed = FALSE
    /\ yielded = 0
    /\ cat_out = << >>
    /\ fetched = {}
    /\ page_log = << >>
    /\ served = 0
    /\ errors0 = 0
    /\ failures = 0
    /\ stop = ""
    /\ earlier = {}

Init ==
    /\ MainIdle
    /\ config \in {c \in Configs : c.test_mode \/ c.test_limit = 1}
    /\ ScraperNew

(* --------------------------- _fetch_page ------------------------------ *)
\* if attempt < retries - 1
retry_left(a) == a < retries - 1

\* Variant of wait_time: the 0-based attempt index is used as it is.
wait_time_zero_based(a) == a * BackoffSeconds

\* wait_time = (attempt + 1) * 5
wait_time(a) == (a + 1) * BackoffSeconds

\* Variant of fetch_failure: every failed attempt counts as an error.
fetch_failure_counting(a) ==
    IF a < retries - 1
    THEN [retry |-> TRUE, sleep |-> <<(a + 1) * BackoffSeconds>>, errors |-> 1]
    ELSE [retry |-> FALSE, sleep |-> << >>, errors |-> 1]

\* Variant of fetch_failure: it sleeps after the last attempt too.
fetch_failure_sleeping(a) ==
    [retry |-> a < retries - 1, sleep |-> <<(a + 1) * BackoffSeconds>>,
     errors |-> IF a < retries - 1 THEN 0 ELSE 1]

\* What the except branch does on attempt a: sleep and retry, or count one
\* error and give up.
fetch_failure(a) ==
    IF retry_left(a)
    THEN [retry |-> TRUE, sleep |-> <<wait_time(a)>>, errors |-> 0]
    ELSE [retry |-> FALSE, sleep |-> << >>, errors |-> 1]

\* An attempt is answered with a body: return response.text; the caller
\* breaks on an empty text.
FetchOk ==
    /\ pc = "fetch"
    /\ UNCHANGED mainvars
    /\ served < MaxServed
    /\ served' = served + 1
    /\ \E body \in Bodies :
          /\ html' = body
          /\ pc' = IF body.kind = "blank" THEN "category_done" ELSE "process"
          /\ stop' = IF body.kind = "blank" THEN "no_html" ELSE stop
    /\ responses' = Append(responses, "ok")
    /\ fetched' = fetched \cup {url.apage}
    /\ delayed' = FALSE
    /\ UNCHANGED <<earlier, config, stats, ci, page, total_items, seen_ids, apollo_state,
                   lots, new_lots, li, url, attempt, out, sleeps, yielded,
                   cat_out, page_log, errors0, failures>>

\* An attempt raises requests.RequestException: sleep and retry, or give up,
\* count one error and return None, on which the caller breaks.
FetchFail ==
    /\ pc = "fetch"
    /\ UNCHANGED mainvars
    /\ responses' = Append(responses, "fail")
    /\ fetched' = fetched \cup {url.apage}
    /\ delayed' = FALSE
    /\ LET f == fetch_failure(attempt)
       IN /\ sleeps' = sleeps \o f.sleep
          /\ stats' = [stats EXCEPT !.errors = @ + f.errors]
          /\ IF f.retry
             THEN /\ attempt' = attempt + 1
                  /\ UNCHANGED <<html, pc, failures, stop>>
             ELSE /\ failures' = failures + 1
                  /\ html' = NoBody
                  /\ pc' = "category_done"
                  /\ stop' = "no_html"
                  /\ UNCHANGED attempt
    /\ UNCHANGED <<earlier, config, ci, page, total_items, seen_ids, apollo_state, lots,
                   new_lots, li, url, out, served, yielded, cat_out, page_log,
                   errors0>>

(* -------------------------- scrape_category --------------------------- *)
\* while total_items < test_limit, test_limit being infinite off test mode
under_limit(total, cfg) == ~cfg.test_mode \/ total < cfg.test_limit

\* Variant of is_new: the seen set is not consulted.
is_new_unseen(item_id, seen) == truthy(item_id)

\* Variant of is_new: the identifiers of earlier categories count as seen.
is_new_in_session(item_id, seen) ==
    truthy(item_id) /\ item_id.s \notin (seen \cup earlier)

\* if item_id and item_id not in seen_ids
is_new(item_id, seen) == truthy(item_id) /\ item_id.s \notin seen

\* The filter loop over lots[i..]: the seen set and the positions kept.
RECURSIVE filter_new(_, _, _, _)
filter_new(ls, i, seen, kept) ==
    IF i > Len(ls) THEN [seen_ids |-> seen, new_lots |-> kept]
    ELSE LET item_id == get_item_id(ls[i])
         IN IF is_new(item_id, seen)
            THEN filter_new(ls, i + 1, seen \cup {item_id.s}, Append(kept, i))
            ELSE filter_new(ls, i + 1, seen, kept)

\* Variant of no_new_lots: a page without a new lot does not end the loop.
no_new_lots_ignored(ls, kept) == FALSE

\* Variant of no_new_lots: the raw lots are tested instead of the new ones.
no_lots(ls, kept) == ls = << >>

\* if not new_lots: break
no_new_lots(ls, kept) == kept = << >>

\* Variant of partial_page: the threshold is one too low.
partial_page_low(ls) == Len(ls) < ITEMS_PER_PAGE \div 2 - 1

\* if len(lots) < ITEMS_PER_PAGE // 2: break
partial_page(ls) == Len(ls) < ITEMS_PER_PAGE \div 2

\* The top of the while loop: the next page is asked for, or the loop ends.
LoopHead(total, p) ==
    IF under_limit(total, config)
    THEN /\ url' = build_url(config, category, p)
         /\ attempt' = 0
         /\ pc' = "fetch"
         /\ stop' = ""
    ELSE /\ pc' = "category_done"
         /\ stop' = "limit"
         /\ UNCHANGED <<url, attempt>>

\* scrape_all calls scrape_category(category): the locals are initialised.
StartCategory ==
    /\ pc = "start_category"
    /\ UNCHANGED mainvars
    /\ page' = 1
    /\ total_items' = 0
    /\ seen_ids' = {}
    /\ LoopHead(0, 1)
    /\ cat_out' = << >>
    /\ earlier' = earlier \cup {cat_out[k][1] : k \in 1..Len(cat_out)}
    /\ fetched' = {}
    /\ page_log' = << >>
    /\ responses' = << >>
    /\ sleeps' = << >>
    /\ errors0' = stats.errors
    /\ failures' = 0
    /\ UNCHANGED <<config, stats, ci, apollo_state, lots, new_lots, li, html,
                   out, delayed, served, yielded>>

\* Variant of page_scraped: the page is not counted.
page_scraped_forgotten(st) == st

\* self.stats.pages_scraped += 1
page_scraped(st) == [st EXCEPT !.pages_scraped = @ + 1]

\* The fetched page is extracted, resolved and filtered.
ProcessPage ==
    /\ pc = "process"
    /\ UNCHANGED mainvars
    /\ LET r == extract_apollo_state(html)
           ls == LotsOf[r.state]
           f == filter_new(ls, 1, seen_ids, << >>)
       IN /\ failures' = failures + r.errors
          /\ IF r.type = "none" \/ r.state = << >>
             THEN /\ stats' = [stats EXCEPT !.errors = @ + r.errors]
                  /\ pc' = "category_done"
                  /\ stop' = "no_state"
                  /\ UNCHANGED <<apollo_state, lots, new_lots, li, seen_ids,
                                 page_log>>
             ELSE IF r.type # "dict"
             THEN /\ pc' = "raised"       \* apollo_state.items(): AttributeError
                  /\ stop' = "raised"
                  /\ UNCHANGED <<stats, apollo_state, lots, new_lots, li,
                                 seen_ids, page_log>>
             ELSE /\ stats' = page_scraped(stats)
                  /\ seen_ids' = f.seen_ids
                  /\ li' = 1
                  /\ IF no_new_lots(ls, f.new_lots)
                     THEN /\ pc' = "category_done"
                          /\ stop' = "no_new"
                          /\ UNCHANGED <<apollo_state, lots, new_lots>>
                     ELSE /\ pc' = "emit"
                          /\ stop' = stop
                          /\ apollo_state' = r.state
                          /\ lots' = ls
                          /\ new_lots' = f.new_lots
                  /\ page_log' = Append(page_log,
                        [raw |-> Len(ls), ids |-> IdsOf[r.state],
                         anonymous |-> AnonymousOf[r.state]])
    /\ responses' = << >>
    /\ sleeps' = << >>
    /\ attempt' = 0
    /\ html' = NoBody
    /\ UNCHANGED <<earlier, config, ci, page, total_items, url, out, delayed, served,
                   yielded, cat_out, fetched, errors0>>

\* Variant of loop_over: the loop is left before its last pass.
loop_over_early(i, kept) == i >= Len(kept)

\* `for lot in new_lots` has no lot left after i - 1 passes
loop_over(i, kept) == i > Len(kept)

\* Variant of item_found: the record is not counted.
item_found_forgotten(st) == st

\* self.stats.items_found += 1
item_found(st) == [st EXCEPT !.items_found = @ + 1]

\* One pass of `for lot in new_lots`: return at the limit, else yield the
\* enriched lot (or count a lot without identifier and go on).
EmitNext ==
    /\ pc = "emit"
    /\ UNCHANGED mainvars
    /\ ~loop_over(li, new_lots)
    /\ LET lot == lots[new_lots[li]]
           item_id == get_item_id(lot)
       IN IF ~under_limit(total_items, config)
          THEN /\ pc' = "category_done"
               /\ stop' = "limit"
               /\ li' = 1
               /\ apollo_state' = << >> /\ lots' = << >> /\ new_lots' = << >>
               /\ UNCHANGED <<stats, total_items, out, yielded, cat_out>>
          ELSE IF truthy(item_id)
          THEN /\ total_items' = total_items + 1
               /\ stats' = item_found(stats)
               /\ out' = [item_id |-> item_id.s, item |-> enrich_lot_data(lot),
                          category |-> category, page |-> page,
                          src |-> new_lots[li]]
               /\ yielded' = yielded + 1
               /\ cat_out' = Append(cat_out, <<item_id.s, page>>)
               /\ pc' = "yield"
               /\ UNCHANGED <<li, apollo_state, lots, new_lots, stop>>
          ELSE /\ stats' = [stats EXCEPT !.errors = @ + 1]
               /\ li' = li + 1
               /\ UNCHANGED <<pc, total_items, out, yielded, cat_out,
                              apollo_state, lots, new_lots, stop>>
    /\ UNCHANGED <<earlier, config, ci, page, seen_ids, url, attempt, html, responses,
                   sleeps, delayed, served, fetched, page_log, errors0, failures>>

\* The caller asks for the next record: the generator resumes after yield.
Resume ==
    /\ pc = "yield"
    /\ UNCHANGED mainvars
    /\ li' = li + 1
    /\ out' = NoOut
    /\ pc' = "emit"
    /\ UNCHANGED <<earlier, config, stats, ci, page, total_items, seen_ids, apollo_state,
                   lots, new_lots, url, attempt, html, responses, sleeps,
                   delayed, served, yielded, cat_out, fetched, page_log, errors0,
                   failures, stop>>

\* After the emission loop: break on a partial page, else page += 1,
\* self._delay() and the top of the while loop.  The page's cache and lots
\* are not read again.
EndOfPage ==
    /\ pc = "emit"
    /\ UNCHANGED mainvars
    /\ loop_over(li, new_lots)
    /\ li' = 1
    /\ apollo_state' = << >> /\ lots' = << >> /\ new_lots' = << >>
    /\ IF partial_page(lots)
       THEN /\ pc' = "category_done"
            /\ stop' = "partial"
            /\ UNCHANGED <<page, delayed, url, attempt>>
       ELSE /\ page' = page + 1
            /\ delayed' = TRUE
            /\ LoopHead(total_items, page + 1)
    /\ UNCHANGED <<earlier, config, stats, ci, total_items, seen_ids, html, out,
                   responses, sleeps, served, yielded, cat_out, fetched,
                   page_log, errors0, failures>>

(* ----------------------------- scrape_all ----------------------------- *)
\* if self.config.test_mode and self.stats.items_found >= self.config.test_limit
limit_reached(st, cfg) == cfg.test_mode /\ st.items_found >= cfg.test_limit

\* scrape_category is exhausted: stop at the limit, else delay unless the
\* category equals the last one, and go on to the next category.
CategoryDone ==
    /\ pc = "category_done"
    /\ UNCHANGED mainvars
    /\ IF limit_reached(stats, config)
       THEN /\ pc' = "done"
            /\ UNCHANGED <<ci, delayed>>
       ELSE /\ delayed' = (delayed \/ category # categories[Len(categories)])
            /\ IF ci < Len(categories)
               THEN ci' = ci + 1 /\ pc' = "start_category"
               ELSE pc' = "done" /\ UNCHANGED ci
    /\ UNCHANGED <<earlier, config, stats, page, total_items, seen_ids, apollo_state,
                   lots, new_lots, li, url, attempt, html, out, responses,
                   sleeps, served, yielded, cat_out, fetched, page_log, errors0,
                   failures, stop>>

Next ==
    \/ StartCategory
    \/ FetchOk
    \/ FetchFail
    \/ ProcessPage
    \/ EmitNext
    \/ Resume
    \/ EndOfPage
    \/ CategoryDone

Spec == Init /\ [][Next]_vars

(* ---------------- a session with a server that stays up --------------- *)
\* What such a server sends: full pages, a partial page, an empty text, a
\* block that is no JSON, a cache that is a list.
LiveCaches == {FullCache12, FullCache23, PartialCache34}

LiveBodies ==
    {Body("state", c) : c \in LiveCaches}
    \cup {Body("blank", << >>), Body("bad_json", << >>),
          Body("state_list", <<PyInt(1)>>)}

\* The identifiers such a server can send: those of the lots of LiveCaches.
LiveIds == {"1", "2", "3", "4"}

\* An attempt is answered with a body, as in FetchOk, by a server that
\* answers as often as it is asked.
FetchAnswered ==
    /\ pc = "fetch"
    /\ UNCHANGED mainvars
    /\ served' = served + 1
    /\ \E body \in LiveBodies :
          /\ html' = body
          /\ pc' = IF body.kind = "blank" THEN "category_done" ELSE "process"
          /\ stop' = IF body.kind = "blank" THEN "no_html" ELSE stop
    /\ responses' = Append(responses, "ok")
    /\ fetched' = fetched \cup {url.apage}
    /\ delayed' = FALSE
    /\ UNCHANGED <<earlier, config, stats, ci, page, total_items, seen_ids,
                   apollo_state, lots, new_lots, li, url, attempt, out, sleeps,
                   yielded, cat_out, page_log, errors0, failures>>

InitLive ==
    /\ MainIdle
    /\ config \in {c \in Configs : /\ Len(c.search_categories) <= MaxLiveCats
                                    /\ c.test_limit = MaxLimit}
    /\ ScraperNew

NextLive ==
    \/ StartCategory
    \/ FetchAnswered
    \/ FetchFail
    \/ ProcessPage
    \/ EmitNext
    \/ Resume
    \/ EndOfPage
    \/ CategoryDone

\* WF_vars(ProcessPage), with ENABLED ProcessPage written as its guard.
FairProcessPage == []<>(pc # "process") \/ []<><<ProcessPage>>_vars

\* The program is sequential: the step it stands at is taken (the request
\* is answered or times out, the caller asks for the next record).
Fairness ==
    /\ WF_vars(StartCategory)
    /\ WF_vars(FetchAnswered \/ FetchFail)
    /\ FairProcessPage
    /\ WF_vars(EmitNext)
    /\ WF_vars(Resume)
    /\ WF_vars(EndOfPage)
    /\ WF_vars(CategoryDone)

SpecLive == InitLive /\ [][NextLive]_vars /\ Fairness

(* ------------------------------ Database ------------------------------ *)
\* A record handed to the database is a dict with its keys in insertion
\* order: a sequence of <<key, value>>.  json.dumps writes them in that order.
json_value(v) ==
    CASE v.t = "str" -> "\"" \o v.s \o "\""
      [] v.t = "int" -> ToString(v.n)
      [] v.t = "none" -> "null"
      [] OTHER -> "{}"

RECURSIVE json_members(_, _)
json_members(d, i) ==
    IF i > Len(d) THEN ""
    ELSE "\"" \o d[i][1] \o "\": " \o json_value(d[i][2])
         \o (IF i < Len(d) THEN ", " ELSE "") \o json_members(d, i + 1)

json_dumps(raw_json) == "{" \o json_members(raw_json, 1) \o "}"

\* INSERT INTO scrape_runs ...: the table after it; lastrowid is its length.
start_scrape_run(runs, zip_code, radius_miles, test_mode, started_at) ==
    Append(runs,
        [id |-> Len(runs) + 1, started_at |-> started_at, completed_at |-> -1,
         zip_code |-> zip_code, radius_miles |-> radius_miles,
         test_mode |-> IF test_mode THEN 1 ELSE 0,
         items_found |-> 0, items_added |-> 0, items_updated |-> 0, errors |-> 0,
         status |-> "running"])

\* UPDATE scrape_runs SET ... WHERE id = ?
complete_scrape_run(runs, id, found, added, updated, errors, status, completed_at) ==
    [i \in 1..Len(runs) |->
        IF runs[i].id = id
        THEN [runs[i] EXCEPT !.completed_at = completed_at, !.items_found = found,
                             !.items_added = added, !.items_updated = updated,
                             !.errors = errors, !.status = status]
        ELSE runs[i]]

\* Variant of record_changed: a stored item is always written again.
record_changed_always(existing, json_str) == TRUE

\* if existing["raw_json"] != json_str
record_changed(existing, json_str) == existing.raw_json # json_str

\* The table after upsert_item and the tuple it returns.
upsert_item(tbl, item_id, raw_json, zip_code, radius_miles, cat, scraped_at) ==
    LET json_str == json_dumps(raw_json)
        existing == SelectSeq(tbl, LAMBDA r : r.item_id = item_id)
    IN IF existing # << >>
       THEN IF record_changed(existing[1], json_str)
            THEN [tbl |-> [i \in 1..Len(tbl) |->
                             IF tbl[i].item_id = item_id
                             THEN [tbl[i] EXCEPT !.raw_json = json_str,
                                                 !.scraped_at = scraped_at,
                                                 !.zip_code = zip_code,
                                                 !.radius_miles = radius_miles,
                                                 !.category = cat]
                             ELSE tbl[i]],
                  ret |-> [is_new |-> FALSE, is_updated |-> TRUE]]
            ELSE [tbl |-> tbl, ret |-> [is_new |-> FALSE, is_updated |-> FALSE]]
       ELSE [tbl |-> Append(tbl,
                        [id |-> Len(tbl) + 1, item_id |-> item_id, raw_json |-> json_str,
                         scraped_at |-> scraped_at, zip_code |-> zip_code,
                         radius_miles |-> radius_miles, category |-> cat]),
             ret |-> [is_new |-> TRUE, is_updated |-> FALSE]]

(* -------------------------------- main -------------------------------- *)
\* The records scrape_all hands to main in a run: two identifiers, a record,
\* the same record with its keys in another order, and a changed record.
RecordA == << <<"id", PyInt(1)>>, <<"title", PyStr("chair")>> >>
RecordB == << <<"title", PyStr("chair")>>, <<"id", PyInt(1)>> >>
RecordC == << <<"id", PyInt(1)>>, <<"title", PyStr("lamp")>> >>

Tuples ==
    [item_id : {"1", "2"}, raw_json : {RecordA, RecordB, RecordC},
     category : {"tools", NoCategory}]

\* A row stored by an earlier run.
EarlierRow ==
    [id |-> 1, item_id |-> "1", raw_json |-> json_dumps(RecordA), scraped_at |-> 0,
     zip_code |-> "12345", radius_miles |-> 50, category |-> "tools"]

RunConfig ==
    [zip_code |-> "12345", radius_miles |-> 50, search_categories |-> << >>,
     test_mode |-> FALSE, test_limit |-> 20]

\* main has built the Database and the HiBidScraper and enters the try block.
InitRun ==
    /\ config = RunConfig
    /\ ScraperNew
    /\ mpc = "start"
    /\ run_id = 0
    /\ items_added = 0
    /\ items_updated = 0
    /\ received = NoItem
    /\ scrape_runs = << >>
    /\ auction_items \in {<< >>, <<EarlierRow>>}
    /\ now = 1
    /\ ret = NoRet
    /\ prev = NoItem
    /\ exit_code = -1

\* db.connect(); run_id = db.start_scrape_run(...)
StartRun ==
    /\ mpc = "start"
    /\ scrape_runs' = start_scrape_run(scrape_runs, config.zip_code,
                                       config.radius_miles, config.test_mode, now)
    /\ run_id' = Len(scrape_runs) + 1
    /\ now' = now + 1
    /\ mpc' = "iterate"
    /\ UNCHANGED <<stats, items_added, items_updated, received, auction_items, ret,
                   prev, exit_code>>
    /\ UNCHANGED crawlvars

\* scrape_all yields a tuple: the loop body is entered.
NextItem ==
    /\ mpc = "iterate"
    /\ stats.items_found < MaxItems
    /\ received' \in Tuples
    /\ prev' = received
    /\ stats' = [stats EXCEPT !.items_found = @ + 1]
    /\ mpc' = "body"
    /\ UNCHANGED <<run_id, items_added, items_updated, scrape_runs, auction_items,
                   now, ret, exit_code>>
    /\ UNCHANGED crawlvars

\* The scraper counts an error while main waits for the next tuple.
ScraperError ==
    /\ mpc = "iterate"
    /\ stats.errors = 0
    /\ stats' = [stats EXCEPT !.errors = @ + 1]
    /\ UNCHANGED mainvars
    /\ UNCHANGED crawlvars

\* The loop body: db.upsert_item(...) and the two counters.
UpsertItem ==
    /\ mpc = "body"
    /\ LET r == upsert_item(auction_items, received.item_id, received.raw_json,
                            config.zip_code, config.radius_miles,
                            received.category, now)
       IN /\ auction_items' = r.tbl
          /\ ret' = r.ret
          /\ items_added' = IF r.ret.is_new THEN items_added + 1 ELSE items_added
          /\ items_updated' =
                IF ~r.ret.is_new /\ r.ret.is_updated THEN items_updated + 1
                ELSE items_updated
    /\ now' = now + 1
    /\ mpc' = "iterate"
    /\ UNCHANGED <<stats, run_id, received, scrape_runs, prev, exit_code>>
    /\ UNCHANGED crawlvars

\* scrape_all is exhausted: db.complete_scrape_run(..., status="completed")
CompleteRun ==
    /\ mpc = "iterate"
    /\ scrape_runs' = complete_scrape_run(scrape_runs, run_id, stats.items_found,
                                          items_added, items_updated, stats.errors,
                                          "completed", now)
    /\ now' = now + 1
    /\ mpc' = "summary"
    /\ UNCHANGED <<stats, run_id, items_added, items_updated, received,
                   auction_items, ret, prev, exit_code>>
    /\ UNCHANGED crawlvars

\* get_run_stats, print_summary, return 0
ReturnCompleted ==
    /\ mpc = "summary"
    /\ exit_code' = 0
    /\ mpc' = "returned"
    /\ UNCHANGED <<stats, run_id, items_added, items_updated, received, scrape_runs,
                   auction_items, now, ret, prev>>
    /\ UNCHANGED crawlvars

\* Variant of abandon_run: the failure itself is not counted as an error.
abandon_run_uncounted(runs, id, st, more_errors, status, completed_at) ==
    IF id # 0
    THEN complete_scrape_run(runs, id, st.items_found, 0, 0, st.errors,
                             status, completed_at)
    ELSE runs

\* The except branches: the run record, if there is one, is closed with the
\* scraper's items_found, no items added or updated, and the given status.
abandon_run(runs, id, st, more_errors, status, completed_at) ==
    IF id # 0
    THEN complete_scrape_run(runs, id, st.items_found, 0, 0, st.errors + more_errors,
                             status, completed_at)
    ELSE runs

\* except KeyboardInterrupt, raised anywhere in the try block: return 130
Interrupt ==
    /\ mpc \in {"start", "iterate", "body", "summary"}
    /\ scrape_runs' = abandon_run(scrape_runs, run_id, stats, 0, "interrupted", now)
    /\ now' = now + 1
    /\ exit_code' = 130
    /\ mpc' = "returned"
    /\ UNCHANGED <<stats, run_id, items_added, items_updated, received,
                   auction_items, ret, prev>>
    /\ UNCHANGED crawlvars

\* except Exception, raised anywhere in the try block: return 1
Fail ==
    /\ mpc \in {"start", "iterate", "body", "summary"}
    /\ scrape_runs' = abandon_run(scrape_runs, run_id, stats, 1, "failed", now)
    /\ now' = now + 1
    /\ exit_code' = 1
    /\ mpc' = "returned"
    /\ UNCHANGED <<stats, run_id, items_added, items_updated, received,
                   auction_items, ret, prev>>
    /\ UNCHANGED crawlvars

\* An exception or an interrupt in the try block after the run was started,
\* and db.complete_scrape_run of the except branch raises in its turn (the
\* storage is still failing): the exception leaves main, nothing is written.
AbandonRaises ==
    /\ mpc \in {"iterate", "body", "summary"}
    /\ run_id # 0
    /\ mpc' = "raised"
    /\ UNCHANGED <<stats, run_id, items_added, items_updated, received, scrape_runs,
                   auction_items, now, ret, prev, exit_code>>
    /\ UNCHANGED crawlvars

NextRun ==
    \/ StartRun
    \/ NextItem
    \/ ScraperError
    \/ UpsertItem
    \/ CompleteRun
    \/ ReturnCompleted
    \/ Interrupt
    \/ Fail
    \/ AbandonRaises

SpecRun == InitRun /\ [][NextRun]_vars

(* ====================================================================== *)
(* Properties                                                             *)
(* ====================================================================== *)
Fail2Ok == <<"fail", "fail", "ok">>
Fail3 == <<"fail", "fail", "fail">>

\* The category session has ended (the generator of scrape_category is
\* exhausted) and the next one has not begun.
CategoryOver == pc \in {"category_done", "start_category", "done"}

\* The identifiers first met on page n of the category being crawled.
FreshOn(n) == page_log[n].ids \ UNION {page_log[j].ids : j \in 1..(n - 1)}

\* The identifiers of the records handed to the caller from page n.
EmittedOn(n) == {cat_out[k][1] : k \in {m \in 1..Len(cat_out) : cat_out[m][2] = n}}

RECURSIVE AnonymousUpTo(_)
AnonymousUpTo(n) == IF n = 0 THEN 0 ELSE page_log[n].anonymous + AnonymousUpTo(n - 1)

\* The Lot entities of the cache of the page being emitted, in cache order.
EntriesOf == [c \in Caches |-> SelectSeq(c, is_lot_entry)]
LotEntries == EntriesOf[apollo_state]

\* The Auction entities of that cache that the key k names: the one stored
\* under k, or one typed Auction stored under a key of another convention
\* whose id gives "Auction:<id>" = k.
NamedAuctions(k) ==
    {apollo_state[i].value :
        i \in {j \in 1..Len(apollo_state) :
                 LET e == apollo_state[j]
                     typed == isdict(e.value)
                                /\ is_str(get(e.value.d, "__typename", PyNone), "Auction")
                     keyed == isdict(e.value) /\ startswith(e.key, "Auction:")
                 IN \/ e.key = k /\ (typed \/ keyed)
                    \/ /\ typed
                       /\ ~keyed
                       /\ k = "Auction:" \o pystr(get(e.value.d, "id", PyNone))}}

\* The entity the record being handed over was made from.
Source == LotEntries[out.src].value.d

\* attr of the source entity is a reference
RefAt(attr) == attr \in DOMAIN Source /\ is_ref(Source[attr])

(* ------------------------------- C1 ----------------------------------- *)
\* C1: in test mode with limit L the records handed to the caller over the
\* whole session number at most L.
C1_SessionCap == config.test_mode => yielded <= config.test_limit

(* ------------------------------- C2 ----------------------------------- *)
\* C2: within one category session no identifier is handed to the caller
\* twice; the record handed over for an identifier comes from the first lot
\* met with it (no earlier page held it, no earlier lot of the page has it);
\* and the error counter moves only by the fetches given up and the
\* extraction errors, never by a filtered duplicate.
C2_FirstOnlyEmitted ==
    /\ \A i, j \in 1..Len(cat_out) : i # j => cat_out[i][1] # cat_out[j][1]
    /\ pc = "yield" =>
          /\ out.item_id \in FreshOn(page)
          /\ get_item_id(lots[out.src]) = PyStr(out.item_id)
          /\ \A i \in 1..(out.src - 1) : get_item_id(lots[i]) # PyStr(out.item_id)
    /\ stats.errors = errors0 + failures

\* A record is handed over on page 2 for an identifier that several lots of
\* the page share, while another identifier of the page was met on page 1.
C2_Witness ==
    /\ pc = "yield"
    /\ page = 2
    /\ page_log[2].ids \cap page_log[1].ids # {}
    /\ \E i \in 1..Len(lots) : i # out.src /\ get_item_id(lots[i]) = PyStr(out.item_id)

(* ------------------------------- C3 ----------------------------------- *)
\* C3: every lot of an extracted page for which no identifier can be derived
\* adds one to the error counter (stated for a session without item cap, when
\* the category is over, and for pages that also held new lots, so that the
\* emission loop ran on each of them).
C3_AnonymousLotCounted ==
    (/\ ~config.test_mode
     /\ pc = "category_done"
     /\ \A n \in 1..Len(page_log) : FreshOn(n) # {}) =>
        stats.errors = errors0 + failures + AnonymousUpTo(Len(page_log))

(* ------------------------------- C4 ----------------------------------- *)
\* C4: if page n of a category holds no identifier that is new, the loop stops
\* at n: no record is handed over from page n, page n + 1 is never requested
\* and the session of the category is over.
C4_StopsOnNoNewLots ==
    \A n \in 1..Len(page_log) :
        FreshOn(n) = {} =>
            /\ EmittedOn(n) = {}
            /\ (n + 1) \notin fetched
            /\ CategoryOver

\* A second page of at least HalfPage raw lots, none of them new.
C4_Witness ==
    /\ Len(page_log) = 2
    /\ FreshOn(2) = {}
    /\ page_log[2].raw >= HalfPage
    /\ page_log[2].ids # {}

(* ------------------------------- C5 ----------------------------------- *)
\* C5 as claimed: after a page of fewer than ITEMS_PER_PAGE // 2 raw lots the
\* next page is never requested, and when the category is over every new lot
\* of that page has been handed over.
C5_PartialPageEmitsAll ==
    \A n \in 1..Len(page_log) :
        page_log[n].raw < 50 =>
            /\ (n + 1) \notin fetched
            /\ CategoryOver => FreshOn(n) \subseteq EmittedOn(n)

\* C5 as amended: after a page of fewer than ITEMS_PER_PAGE // 2 raw lots the
\* next page is never requested, and when the category is over the new lots
\* of that page have been handed over, all of them or as many as the test
\* limit allows (total_items then equals test_limit).
C5_PartialPageStops ==
    \A n \in 1..Len(page_log) :
        page_log[n].raw < 50 =>
            /\ (n + 1) \notin fetched
            /\ EmittedOn(n) \subseteq FreshOn(n)
            /\ CategoryOver =>
                  \/ FreshOn(n) = EmittedOn(n)
                  \/ config.test_mode /\ total_items = config.test_limit

\* The category is over after a page that is one raw lot short of HalfPage,
\* holds duplicates, and whose new lots were all handed over.
C5_Witness ==
    /\ pc = "category_done"
    /\ Len(page_log) >= 1
    /\ LET n == Len(page_log)
       IN /\ page_log[n].raw = 49
          /\ FreshOn(n) # {}
          /\ Cardinality(FreshOn(n)) < page_log[n].raw
          /\ FreshOn(n) = EmittedOn(n)

(* ------------------------------- C6 ----------------------------------- *)
\* The page text holds a non-empty cache.
Extractable(body) == body.kind = "state" /\ body.state # << >>

\* C6: a fetch answered fail, fail, ok returns the body after exactly two
\* sleeps and without touching the error counter; the page is then processed
\* once: pages_scraped grows by one when the extraction succeeds, and the
\* error counter still stands where it stood.
C6_ThirdAttemptSucceeds ==
    /\ [](responses = Fail2Ok =>
            /\ html \in Bodies
            /\ Len(sleeps) = 2
            /\ stats.errors = errors0)
    /\ [][(pc = "process" /\ responses = Fail2Ok /\ Extractable(html)) =>
            /\ stats'.pages_scraped = stats.pages_scraped + 1
            /\ stats'.errors = stats.errors]_vars

\* The third attempt has succeeded and its page is about to be processed.
C6_Witness == pc = "process" /\ responses = Fail2Ok /\ Extractable(html)

(* ------------------------------- C7 ----------------------------------- *)
\* C7: a fetch makes at most 3 attempts; the third failure returns None, adds
\* exactly one to the error counter (the two before added none), is followed
\* by no sleep, and ends the category without an exception.
C7_GivesUpAfterThree ==
    /\ [](Len(responses) <= 3)
    /\ [](responses = Fail3 =>
            /\ html = NoBody
            /\ Len(sleeps) = 2
            /\ stats.errors = errors0 + 1
            /\ pc # "raised")
    /\ [][(pc = "fetch" /\ responses' = Fail3) =>
            /\ stats'.errors = stats.errors + 1
            /\ sleeps' = sleeps
            /\ pc' = "category_done"]_vars

\* All three attempts of a fetch have failed.
C7_Witness == responses = Fail3 /\ pc = "category_done"

(* ------------------------------- C8 ----------------------------------- *)
\* C8: the sleep after the k-th failed attempt is k * 5 seconds, so the
\* sleeps of a fetch strictly increase.
C8_LinearBackoff ==
    \A k \in 1..Len(sleeps) :
        /\ sleeps[k] = k * 5
        /\ k > 1 => sleeps[k] > sleeps[k - 1]

\* Two attempts have failed and two sleeps were made.
C8_Witness == Len(sleeps) = 2 /\ Len(responses) = 2

(* ------------------------------- C9 ----------------------------------- *)
\* The positions in lots of the first lot met with each new identifier.
NewPositions ==
    {i \in 1..Len(lots) :
        /\ truthy(get_item_id(lots[i]))
        /\ get_item_id(lots[i]).s \in FreshOn(page)
        /\ \A j \in 1..(i - 1) : get_item_id(lots[j]) # get_item_id(lots[i])}

\* C9: resolution keeps every Lot entity of the cache with its attributes,
\* whether its references resolve or not; the filter keeps each of them that
\* is the first with a new identifier; and the record handed over for a Lot
\* whose parent-event (status) reference is unresolved carries the key of
\* that reference under auction_ref (lot_state_ref).
C9_UnresolvedKept ==
    pc \in {"emit", "yield"} =>
        /\ Len(lots) = Len(LotEntries)
        /\ \A j \in 1..Len(lots) :
              \A a \in DOMAIN LotEntries[j].value.d :
                  a \in DOMAIN lots[j] /\ lots[j][a] = LotEntries[j].value.d[a]
        /\ NewPositions = {new_lots[k] : k \in 1..Len(new_lots)}
        /\ pc = "yield" =>
              /\ (RefAt("auction") /\ NamedAuctions(Source["auction"].d["__ref"].s) = {}) =>
                    /\ "auction_ref" \in DOMAIN out.item
                    /\ out.item["auction_ref"] = Source["auction"].d["__ref"]
              /\ (RefAt("lotState") /\ ~has_key(apollo_state, Source["lotState"].d["__ref"].s)) =>
                    /\ "lot_state_ref" \in DOMAIN out.item
                    /\ out.item["lot_state_ref"] = Source["lotState"].d["__ref"]

\* The record of a Lot whose two references both dangle is handed over.
C9_Witness ==
    /\ pc = "yield"
    /\ RefAt("auction") /\ NamedAuctions(Source["auction"].d["__ref"].s) = {}
    /\ RefAt("lotState") /\ ~has_key(apollo_state, Source["lotState"].d["__ref"].s)
    /\ out.item["auction_ref"] = PyStr("Auction:404")
    /\ "auction_data" \notin DOMAIN out.item

C10_ExampleReached == pc = "yield" /\ apollo_state = ExampleCache

(* ------------------------------- C11 ---------------------------------- *)
\* The candidate fields of an entity that are present and not empty.
Filled(item) ==
    {f \in {"id", "itemId", "eventItemId"} : f \in DOMAIN item /\ truthy(item[f])}

\* The identifier the priority rule gives: the first filled candidate field
\* in the order id, itemId, eventItemId as a string; failing that the type
\* tag "lot" joined to the raw id when the entity is tagged Lot and has one;
\* failing that none.
CanonicalId(item) ==
    IF "id" \in Filled(item) THEN PyStr(pystr(item["id"]))
    ELSE IF "itemId" \in Filled(item) THEN PyStr(pystr(item["itemId"]))
    ELSE IF "eventItemId" \in Filled(item) THEN PyStr(pystr(item["eventItemId"]))
    ELSE IF /\ "__typename" \in DOMAIN item
            /\ item["__typename"] = PyStr("Lot")
            /\ "id" \in DOMAIN item
    THEN PyStr("lot-" \o pystr(item["id"]))
    ELSE PyNone

\* C11: the identifier derived for every lot of the page being emitted is the
\* one the priority rule gives (first filled field among id, itemId,
\* eventItemId; else the composite of type tag and raw id; else none), a lot
\* is kept for emission only if it has one, and the record handed over
\* carries the identifier of the entity it was made from.
C11_IdentifierPriority ==
    /\ \A i \in 1..Len(lots) :
          /\ get_item_id(lots[i]) = CanonicalId(LotEntries[i].value.d)
          /\ (\E k \in 1..Len(new_lots) : new_lots[k] = i) =>
                CanonicalId(LotEntries[i].value.d) # PyNone
    /\ pc = "yield" => PyStr(out.item_id) = CanonicalId(Source)

\* The record of the lot whose id is empty is handed over under its itemId.
C11_Witness ==
    /\ pc = "yield"
    /\ apollo_state = IdCache
    /\ out.src = 1
    /\ out.item_id = "11"

\* The record of the typed lot whose id is empty is handed over under the
\* composite identifier.
C11_CompositeReached ==
    /\ pc = "yield"
    /\ apollo_state = IdCache
    /\ out.src = 5
    /\ out.item_id = "lot-"

(* ------------------------------- C12 ---------------------------------- *)
\* The category's loop ended on a failure: no text was fetched (retries
\* exhausted or an empty body), or no state could be extracted from it (no
\* state block, malformed JSON, an empty state).
FailedCategory == pc \in {"category_done", "start_category"} /\ stop \in {"no_html", "no_state"}

\* The first page of the category at position i of the list is asked for.
FirstFetchOf(i) ==
    /\ pc' = "fetch"
    /\ ci' = i
    /\ fetched' = {}
    /\ url'.apage = 1
    /\ url'.path = "/lots/" \o categories[i] \o "/"

\* After a failure nothing more is fetched in the category and nothing is
\* raised.
FailureIsContained ==
    (FailedCategory /\ pc = "category_done") => (fetched' = fetched /\ pc' # "raised")

\* C12: a failure inside a category ends that category's loop, no
\* further page of it is fetched, nothing is raised, and whenever another
\* category is configured the session goes on to fetch its first page.
C12_FailureEndsCategoryOnly ==
    /\ [](stop \in {"no_html", "no_state"} => pc \in {"category_done", "start_category", "done"})
    /\ [][FailureIsContained]_vars
    /\ [][(FailedCategory /\ pc = "category_done" /\ ci < Len(categories)) =>
              (pc' = "start_category" /\ ci' = ci + 1)]_vars
    /\ [][(FailedCategory /\ pc = "start_category") => FirstFetchOf(ci)]_vars

\* The second category is about to be crawled after the first one's second
\* page could not be fetched in three attempts.
C12_Witness ==
    /\ pc = "start_category"
    /\ ci = 2
    /\ stop = "no_html"
    /\ responses = Fail3
    /\ fetched = {1, 2}
    /\ stats.errors = 1

\* The second category is about to be crawled after the first one's page
\* held malformed JSON.
C12_MalformedReached ==
    /\ pc = "start_category"
    /\ ci = 2
    /\ stop = "no_state"
    /\ stats.errors = 1

(* ------------------------------- C13 ---------------------------------- *)
\* The name configured at position i, or Python's None when no category is
\* configured, and the path of the listing of that category.
Configured(i) ==
    IF config.search_categories = << >> THEN NoCategory ELSE config.search_categories[i]

PathOf(i) ==
    IF config.search_categories = << >> THEN "/lots/"
    ELSE "/lots/" \o config.search_categories[i] \o "/"

\* C13: the session starts with the first configured category and moves on
\* by one position at a time, only when the session of the category before
\* is over; every request goes to the listing of the category at the current
\* position and every record handed over is tagged with it; when no category
\* is configured one implicit category, None with the path /lots/, is
\* crawled and no other.
C13_ConfiguredOrder ==
    /\ ci = 1
    /\ [](/\ ci \in 1..Len(config.search_categories) \/ (config.search_categories = << >> /\ ci = 1)
          /\ pc = "fetch" => url.path = PathOf(ci)
          /\ pc = "yield" => out.category = Configured(ci) /\ url.path = PathOf(ci))
    /\ [][ci' # ci =>
              /\ ci' = ci + 1
              /\ pc = "category_done" /\ pc' = "start_category"
              /\ out = NoOut]_vars
    /\ [][(pc = "start_category" /\ pc' = "fetch") =>
              (fetched' = {} /\ url'.apage = 1 /\ url'.path = PathOf(ci))]_vars

\* A record of the second configured category is handed over, tagged with
\* its name, after the first category was crawled.
C13_Witness ==
    /\ pc = "yield"
    /\ ci = 2
    /\ config.search_categories[1] = "tools"
    /\ out.category = "coins"
    /\ url.path = "/lots/coins/"
    /\ stats.pages_scraped = 2

\* A record of the implicit category is handed over.
C13_ImplicitReached ==
    /\ pc = "yield"
    /\ config.search_categories = << >>
    /\ out.category = NoCategory
    /\ url.path = "/lots/"

(* ------------------------------- C14 ---------------------------------- *)
\* A page is about to be requested for the first time, and it is not the
\* first request of the session.
LaterFetch == pc = "fetch" /\ responses = << >> /\ (ci > 1 \/ fetched # {})

\* C14: whenever a page is about to be requested after another page of the
\* session was requested, be it of the same category or of the category
\* before, _delay has been called since that earlier request.
C14_DelayBetweenFetches == LaterFetch => delayed

(* ------------------------------- C15 ---------------------------------- *)
\* C15: records are handed over one at a time, each as soon as it is made;
\* every new lot of a page has been handed to the caller before the next
\* page of the category is requested, so that at any moment the caller holds
\* the records of all the new lots of every page before the current one.
C15_NoBuffering ==
    /\ [](/\ \A n \in 1..(Len(page_log) - 1) : FreshOn(n) = EmittedOn(n)
          /\ pc = "fetch" =>
                /\ Len(page_log) = page - 1
                /\ \A n \in 1..(page - 1) : FreshOn(n) = EmittedOn(n)
          /\ Len(cat_out) = total_items
          /\ pc = "yield" => cat_out[Len(cat_out)] = <<out.item_id, Len(page_log)>>)
    /\ [][/\ yielded' \in {yielded, yielded + 1}
          /\ yielded' = yielded + 1 => pc' = "yield"
          /\ pc = "yield" => (pc' = "emit" /\ yielded' = yielded)]_vars

\* The second page of a category is about to be requested and the two new
\* lots of its first page have been handed over.
C15_Witness ==
    /\ pc = "fetch"
    /\ page = 2
    /\ Cardinality(FreshOn(1)) = 2
    /\ EmittedOn(1) = FreshOn(1)
    /\ Len(cat_out) = 2

(* ------------------------------- C16 ---------------------------------- *)
\* The record of the run main started.
RunRow == scrape_runs[CHOOSE i \in 1..Len(scrape_runs) : scrape_runs[i].id = run_id]

\* C16: when main has returned on an interruption that came after the run
\* record was started, the record has status "interrupted" and its
\* items_found, errors, items_added and items_updated are the values
\* accumulated up to the interruption.
C16_InterruptedKeepsStatistics ==
    (exit_code = 130 /\ run_id # 0) =>
        /\ RunRow.status = "interrupted"
        /\ RunRow.items_found = stats.items_found
        /\ RunRow.errors = stats.errors
        /\ RunRow.items_added = items_added
        /\ RunRow.items_updated = items_updated

(* ------------------------------- C17 ---------------------------------- *)
\* The stored rows of an item_id.
RowsOf(tbl, id) == SelectSeq(tbl, LAMBDA r : r.item_id = id)

\* The step is the loop body of main: one call of upsert_item.
UpsertStep == mpc = "body" /\ mpc' = "iterate"

\* json.loads of a stored text: the record it was written from.
json_loads(text) == CHOOSE r \in {RecordA, RecordB, RecordC} : json_dumps(r) = text

\* Two records are the same dict: the same keys with the same values.
SameRecord(a, b) == {a[i] : i \in 1..Len(a)} = {b[i] : i \in 1..Len(b)}

\* C17 as claimed: no two stored rows share an item_id; an upsert returns
\* (True, False) exactly when the item_id had no row, (False, True) exactly
\* when it had one holding a different record, never (True, True); and an
\* upsert that repeats the one before it (same item_id, same record) returns
\* (False, False) and leaves the table unchanged.
C17_UpsertByRecord ==
    /\ [](\A i, j \in 1..Len(auction_items) :
              auction_items[i].item_id = auction_items[j].item_id => i = j)
    /\ [][UpsertStep =>
              LET before == RowsOf(auction_items, received.item_id)
              IN /\ ~(ret'.is_new /\ ret'.is_updated)
                 /\ ret'.is_new <=> before = << >>
                 /\ ret'.is_updated <=>
                        /\ before # << >>
                        /\ ~SameRecord(json_loads(before[1].raw_json), received.raw_json)
                 /\ (/\ prev.item_id = received.item_id
                     /\ SameRecord(prev.raw_json, received.raw_json)) =>
                        (ret' = NoRet /\ auction_items' = auction_items)]_vars

\* C17 as amended: the same, two records being the same when json.dumps
\* gives the same text for them (the keys in the same order): (False, True)
\* exactly when the item_id had a row whose stored text differs from the
\* record's text; when (False, False) is returned the table is unchanged;
\* after the upsert the one row of the item_id holds the record's text.
C17_UpsertIdempotent ==
    /\ [](\A i, j \in 1..Len(auction_items) :
              auction_items[i].item_id = auction_items[j].item_id => i = j)
    /\ [][UpsertStep =>
              LET before == RowsOf(auction_items, received.item_id)
                  after == RowsOf(auction_items', received.item_id)
                  text == json_dumps(received.raw_json)
              IN /\ ~(ret'.is_new /\ ret'.is_updated)
                 /\ ret'.is_new <=> before = << >>
                 /\ ret'.is_updated <=> (before # << >> /\ before[1].raw_json # text)
                 /\ (~ret'.is_new /\ ~ret'.is_updated) => auction_items' = auction_items
                 /\ Len(after) = 1 /\ after[1].raw_json = text
                 /\ (prev.item_id = received.item_id /\ prev.raw_json = received.raw_json) =>
                        (ret' = NoRet /\ auction_items' = auction_items)]_vars

\* An item was added and the same upsert made again: the second returned
\* (False, False).
C17_Witness ==
    /\ mpc = "iterate"
    /\ prev # NoItem
    /\ prev.item_id = received.item_id
    /\ prev.raw_json = received.raw_json
    /\ ret = NoRet
    /\ items_added = 1
    /\ items_updated = 0
    /\ Len(auction_items) = 1

\* A stored item was upserted with a changed record: (False, True).
C17_UpdateReached ==
    /\ mpc = "iterate"
    /\ ret = [is_new |-> FALSE, is_updated |-> TRUE]
    /\ received.raw_json = RecordC
    /\ items_updated = 1

(* ------------------------------- C18 ---------------------------------- *)
\* The parent-event (status) reference of the source entity resolves.
AuctionResolves == NamedAuctions(Source["auction"].d["__ref"].s) # {}
LotStateResolves == has_key(apollo_state, Source["lotState"].d["__ref"].s)

\* The record handed over has the attribute to exactly when the source
\* entity came with an attribute of that name or of the internal name.
OnlyOwn(to, internal) ==
    to \in DOMAIN out.item <=> (to \in DOMAIN Source \/ internal \in DOMAIN Source)

\* C18 (as stated): for a Lot whose parent-event (status) attribute is a
\* reference, the record handed over has auction_data (lot_state_data)
\* exactly when the reference resolves and auction_ref (lot_state_ref)
\* exactly when it does not.
C18_RefOrData ==
    pc = "yield" =>
        /\ RefAt("auction") =>
              /\ "auction_data" \in DOMAIN out.item <=> AuctionResolves
              /\ "auction_ref" \in DOMAIN out.item <=> ~AuctionResolves
        /\ RefAt("lotState") =>
              /\ "lot_state_data" \in DOMAIN out.item <=> LotStateResolves
              /\ "lot_state_ref" \in DOMAIN out.item <=> ~LotStateResolves

\* C18 (amended): for a Lot whose parent-event (status) attribute is a
\* reference, the record handed over carries the key of the reference under
\* auction_ref (lot_state_ref) whether the reference resolves or not, and no
\* longer has the attribute auction (lotState); it carries the target under
\* auction_data (lot_state_data) when the reference resolves, and when it
\* does not resolve it has that attribute only if the entity came with it.
C18_RefKeptDataIfResolved ==
    pc = "yield" =>
        /\ RefAt("auction") =>
              /\ "auction_ref" \in DOMAIN out.item
              /\ out.item["auction_ref"] = Source["auction"].d["__ref"]
              /\ "auction" \notin DOMAIN out.item
              /\ AuctionResolves =>
                    /\ "auction_data" \in DOMAIN out.item
                    /\ out.item["auction_data"]
                          \in NamedAuctions(Source["auction"].d["__ref"].s)
              /\ ~AuctionResolves => OnlyOwn("auction_data", "_resolved_auction")
        /\ RefAt("lotState") =>
              /\ "lot_state_ref" \in DOMAIN out.item
              /\ out.item["lot_state_ref"] = Source["lotState"].d["__ref"]
              /\ "lotState" \notin DOMAIN out.item
              /\ LotStateResolves =>
                    /\ "lot_state_data" \in DOMAIN out.item
                    /\ out.item["lot_state_data"]
                          = lookup(apollo_state, Source["lotState"].d["__ref"].s)
              /\ ~LotStateResolves => OnlyOwn("lot_state_data", "_resolved_lotState")

\* The record of a Lot whose two references both resolve is handed over with
\* the targets and the keys of the references.
C18_Witness ==
    /\ pc = "yield"
    /\ RefAt("auction") /\ AuctionResolves
    /\ RefAt("lotState") /\ LotStateResolves
    /\ out.item["auction_ref"] = PyStr("Auction:9")
    /\ out.item["lot_state_ref"] = PyStr("LotState:7")
    /\ "auction_data" \in DOMAIN out.item
    /\ "lot_state_data" \in DOMAIN out.item

\* The record of a Lot whose reference dangles and that came with an
\* attribute auction_data of its own is handed over.
C18_OwnDataReached ==
    /\ pc = "yield"
    /\ RefAt("auction") /\ ~AuctionResolves
    /\ "auction_data" \in DOMAIN out.item
    /\ out.item["auction_data"] = PyStr("own")
    /\ out.item["auction_ref"] = PyStr("Auction:404")

(* ------------------------------- C19 ---------------------------------- *)
\* The records of this category handed over on its pages 1..n, and the
\* records of the session handed over by the end of page n.
CategoryUpTo(n) == Cardinality({k \in 1..Len(cat_out) : cat_out[k][2] <= n})
SessionUpTo(n) == (yielded - Len(cat_out)) + CategoryUpTo(n)

\* Page n was fetched and gave a cache that is not empty, held a new lot and
\* at least half a page of raw lots, and emitted records are below the cap.
ContinueAfter(n, emitted) ==
    /\ n \in 1..Len(page_log)
    /\ FreshOn(n) # {}
    /\ page_log[n].raw >= ITEMS_PER_PAGE \div 2
    /\ config.test_mode => emitted < config.test_limit

\* C19: page n + 1 of a category is fetched if and only if page n was
\* fetched, gave a cache that is not empty, held at least one new lot and at
\* least ITEMS_PER_PAGE // 2 raw lots, and the session-wide item cap was
\* not reached by the end of page n.
C19_ExactTermination ==
    /\ \A m \in fetched : m = 1 \/ ContinueAfter(m - 1, SessionUpTo(m - 1))
    /\ pc \in {"category_done", "done", "raised"} =>
          \A n \in 1..Len(page_log) :
              ContinueAfter(n, SessionUpTo(n)) => (n + 1) \in fetched

\* The same with the cap counted as the code counts it, per category: this
\* form holds.
C19_ExactPerCategory ==
    /\ \A m \in fetched : m = 1 \/ ContinueAfter(m - 1, CategoryUpTo(m - 1))
    /\ pc \in {"category_done", "done", "raised"} =>
          \A n \in 1..Len(page_log) :
              ContinueAfter(n, CategoryUpTo(n)) => (n + 1) \in fetched

\* Page 2 of a later category is fetched although the session had reached
\* the cap by the end of its page 1.
C19_CapPassedReached ==
    /\ config.test_mode
    /\ 2 \in fetched
    /\ SessionUpTo(1) >= config.test_limit

\* A page of exactly ITEMS_PER_PAGE // 2 raw lots is followed by the next
\* page; a page of one raw lot less ends the category.
C19_HalfPageContinues ==
    /\ Len(page_log) >= 1
    /\ page_log[1].raw = ITEMS_PER_PAGE \div 2
    /\ 2 \in fetched

C19_ShortPageStops ==
    /\ pc = "category_done"
    /\ Len(page_log) = 1
    /\ page_log[1].raw = ITEMS_PER_PAGE \div 2 - 1
    /\ FreshOn(1) # {}
    /\ ~config.test_mode
    /\ 2 \notin fetched

(* ------------------------------- C20 ---------------------------------- *)
\* The identifiers met on the pages of this category processed so far.
MetInCategory == UNION {page_log[j].ids : j \in 1..Len(page_log)}

\* The cap ended the emission of this category.
CapReached == config.test_mode /\ Len(cat_out) >= config.test_limit

\* C20: the dedup set holds the identifiers met on the pages of the current
\* category and no other, whatever earlier categories handed over; and when
\* a category is over every identifier that was new on one of its pages,
\* also one handed over in an earlier category, was handed over on that
\* page, unless the cap ended the category.
C20_DedupPerCategory ==
    /\ seen_ids = MetInCategory
    /\ pc = "category_done" =>
          \A n \in 1..Len(page_log) :
              \A x \in FreshOn(n) : x \in EmittedOn(n) \/ CapReached

\* A record is handed over in a later category under an identifier handed
\* over in an earlier category of the session.
C20_Witness ==
    /\ pc = "yield"
    /\ ci > 1
    /\ out.item_id \in earlier
    /\ out.item_id \in seen_ids

(* ------------------------------- C21 ---------------------------------- *)
\* C21: the page numbers requested in a category are 1, 2, ..., k without a
\* gap; the page asked for is always the one after the pages processed so
\* far, so no processed page is asked for again; and a category that begins
\* asks for page 1.
C21_PageCursor ==
    /\ fetched = 1..Cardinality(fetched)
    /\ fetched \subseteq 1..(Len(page_log) + 1)
    /\ pc = "fetch" =>
          /\ url.apage = Len(page_log) + 1
          /\ url.apage = page
          /\ (fetched = {} /\ attempt = 0) => url.apage = 1

\* Page 2 of a later category is requested after its page 1 was processed.
C21_Witness ==
    /\ ci > 1
    /\ fetched = {1, 2}
    /\ Len(page_log) = 1

(* ------------------------------- C22 ---------------------------------- *)
\* The session is over: scrape_all is exhausted, or the exception of a cache
\* that is no dict has left it.
SessionOver == pc \in {"done", "raised"}

\* C22: with a server that answers as often as it is asked, with or without
\* a test limit, the seen set holds identifiers of the finite universe only,
\* the pages requested in a category number at most one more than the
\* identifiers seen in it, hence at most |identifiers| + 1, and the session
\* comes to its end.
C22_Terminates ==
    /\ [](/\ seen_ids \subseteq LiveIds
          /\ Cardinality(fetched) <= Cardinality(seen_ids) + 1
          /\ Cardinality(fetched) <= Cardinality(LiveIds) + 1)
    /\ <>SessionOver

\* Off test mode a second category ends after three full pages, the last of
\* which held no new identifier.
C22_Witness ==
    /\ ~config.test_mode
    /\ ci > 1
    /\ pc = "category_done"
    /\ Len(page_log) = 3
    /\ \A n \in 1..3 : page_log[n].raw >= ITEMS_PER_PAGE \div 2
    /\ stop = "no_new"

\* Every identifier the server can send has entered the seen set of one
\* category.
C22_UniverseReached == seen_ids = LiveIds /\ Len(page_log) = 3

(* ------------------------------- C23 ---------------------------------- *)
\* A record is handed to the caller by this step.
HandsOver == pc # "yield" /\ pc' = "yield"

\* C23: stats.items_found always equals the number of records handed to the
\* caller in the session so far; it never decreases, and it changes exactly
\* in the steps that hand a record over, by one.
C23_ItemsFoundCounts ==
    /\ [](stats.items_found = yielded)
    /\ [][/\ stats'.items_found >= stats.items_found
          /\ HandsOver <=> stats'.items_found = stats.items_found + 1
          /\ HandsOver \/ stats'.items_found = stats.items_found]_vars

\* Records of two categories have been handed over and counted.
C23_Witness ==
    /\ pc = "yield"
    /\ ci > 1
    /\ stats.items_found = 3
    /\ Len(cat_out) < stats.items_found

(* ------------------------------- C24 ---------------------------------- *)
\* The text fetched holds a state block whose cache is an object with at
\* least one entry.
NonEmptyCache == html.kind = "state" /\ html.state # << >>

\* C24: stats.pages_scraped starts at 0 and grows by one exactly in the
\* step that processes a fetched text holding a non-empty cache, whether or
\* not the page then holds a new lot; no other step changes it (not a
\* failed fetch, not a text without a well-formed state block, not an empty
\* cache).
C24_PagesScrapedCounts ==
    /\ stats.pages_scraped = 0
    /\ [][stats'.pages_scraped =
            stats.pages_scraped
              + (IF pc = "process" /\ NonEmptyCache THEN 1 ELSE 0)]_vars

\* A second page that held no new lot has been counted.
C24_Witness ==
    /\ pc = "category_done"
    /\ stop = "no_new"
    /\ Len(page_log) = 2
    /\ stats.pages_scraped = 2

\* A page whose state block is malformed ended the category uncounted.
C24_UncountedReached ==
    /\ pc = "category_done"
    /\ stop = "no_state"
    /\ failures = 1
    /\ Len(page_log) = 1
    /\ stats.pages_scraped = 1

(* ------------------------------- C25 ---------------------------------- *)
\* C25: processing a text without a state block, with an empty one, or
\* whose document lacks the cache field ends the category and leaves
\* stats.errors as it was; processing a text whose block is not JSON ends
\* the category and adds exactly one to stats.errors.
C25_ExtractionFailuresTallied ==
    [][pc = "process" =>
          /\ html.kind \in {"no_script", "empty_script", "no_state_key"} =>
                /\ pc' = "category_done"
                /\ stats'.errors = stats.errors
                /\ fetched' = fetched
          /\ html.kind = "bad_json" =>
                /\ pc' = "category_done"
                /\ stats'.errors = stats.errors + 1
                /\ fetched' = fetched]_vars

\* The first page of a category had a block that was no JSON: the category
\* is over with one error more.
C25_Witness ==
    /\ pc = "category_done"
    /\ stop = "no_state"
    /\ fetched = {1}
    /\ failures = 1
    /\ stats.errors = errors0 + 1

\* The first page of a category had no state block: the category is over
\* and the errors are as they were.
C25_SilentReached ==
    /\ pc = "category_done"
    /\ stop = "no_state"
    /\ fetched = {1}
    /\ failures = 0
    /\ stats.errors = errors0

(* ------------------------------- C26 ---------------------------------- *)
\* The Auction index of each cache the server can send (computed once).
AuctionsOf == [c \in Caches |-> collect_auctions(c)]

\* The positions of the Auction entities of a cache.
AuctionEntries(c) == {i \in 1..Len(c) : is_auction(c[i].key, c[i].value)}

\* The keys under which the reference of a Lot may name an Auction entity:
\* its cache key, and "Auction:<id>".
KeysOfAuction(e) == {e.key, auction_alias(e.key, e.value)}

\* C26: while a page is emitted, the Auction index holds every Auction
\* entity of the cache under its cache key and under "Auction:<id>", and
\* nothing that is no Auction entity; and the parent reference of a lot was
\* resolved exactly when it equals one of these keys of an Auction entity.
C26_IndexHoldsEveryAuction ==
    pc \in {"emit", "yield"} =>
        LET auctions == AuctionsOf[apollo_state]
            named == UNION {KeysOfAuction(apollo_state[i]) :
                              i \in AuctionEntries(apollo_state)}
        IN /\ \A i \in AuctionEntries(apollo_state) :
                 \A k \in KeysOfAuction(apollo_state[i]) :
                     k \in DOMAIN auctions /\ auctions[k] = apollo_state[i].value
           /\ \A k \in DOMAIN auctions :
                 \E i \in AuctionEntries(apollo_state) :
                     auctions[k] = apollo_state[i].value
           /\ \A j \in 1..Len(lots) :
                 ("auction" \in DOMAIN lots[j] /\ is_ref(lots[j]["auction"])) =>
                     ("_resolved_auction" \in DOMAIN lots[j]
                        <=> lots[j]["auction"].d["__ref"].s \in named)

\* The lot of the cache with two Auction entities answering to "Auction:1"
\* is handed over with the record of the one stored under "Evt:1".
C26_TwinReached ==
    /\ pc = "yield"
    /\ apollo_state = TwinCache
    /\ out.item["auction_ref"] = PyStr("Auction:1")
    /\ out.item["auction_data"] = TwinCache[3].value

(* ------------------------------- C27 ---------------------------------- *)
\* The positions in the cache of the entries stored under the key that the
\* status reference of the source entity names.
StatusTargets ==
    {i \in 1..Len(apollo_state) :
        apollo_state[i].key = Source["lotState"].d["__ref"].s}

\* C27: the record handed over for a Lot whose status attribute is a
\* reference carries under lot_state_data the value of the cache entry
\* stored under the referenced key, whatever kind of entry that is, if the
\* cache has one; if it has none, the record carries the key under
\* lot_state_ref and no lot_state_data is added.
C27_StatusAgainstWholeCache ==
    (pc = "yield" /\ RefAt("lotState")) =>
        IF StatusTargets # {}
        THEN /\ "lot_state_data" \in DOMAIN out.item
             /\ \A i \in StatusTargets :
                   out.item["lot_state_data"] = apollo_state[i].value
        ELSE /\ "lot_state_ref" \in DOMAIN out.item
             /\ out.item["lot_state_ref"] = Source["lotState"].d["__ref"]
             /\ OnlyOwn("lot_state_data", "_resolved_lotState")

\* A record is handed over with a status entry inlined that is no Auction
\* entity.
C27_Witness ==
    /\ pc = "yield"
    /\ apollo_state = MixedCache
    /\ RefAt("lotState")
    /\ StatusTargets = {3}
    /\ ~is_auction(MixedCache[3].key, MixedCache[3].value)
    /\ out.item["lot_state_data"] = MixedCache[3].value

\* A record is handed over whose status reference names no entry.
C27_DanglingReached ==
    /\ pc = "yield"
    /\ RefAt("lotState")
    /\ StatusTargets = {}
    /\ out.item["lot_state_ref"] = PyStr("LotState:404")

(* ------------------------------- C28 ---------------------------------- *)
\* The attributes of the source entity that are references, the names
\* enrichment writes, and the internal markers.
RefAttributes == {a \in {"auction", "lotState"} : RefAt(a)}
AddedNames == {"auction_data", "lot_state_data", "auction_ref", "lot_state_ref"}
Markers == {"_resolved_auction", "_resolved_lotState"}

\* C28: every attribute of the source entity other than its
\* reference attributes is in the record handed over with the same value;
\* the record has no attribute besides these and the four added names, and
\* neither the reference attributes nor the internal markers.
C28_OthersPassThrough ==
    pc = "yield" =>
        /\ \A a \in DOMAIN Source \ RefAttributes :
              a \in DOMAIN out.item /\ out.item[a] = Source[a]
        /\ DOMAIN out.item \subseteq (DOMAIN Source \ RefAttributes) \cup AddedNames
        /\ DOMAIN out.item \cap (RefAttributes \cup Markers) = {}

\* The same for the attributes of the source entity that do not themselves
\* bear one of the four added names or the name of a marker: this form
\* holds.
C28_OthersPassThroughUnlessNamesake ==
    pc = "yield" =>
        /\ \A a \in DOMAIN Source \ (RefAttributes \cup AddedNames \cup Markers) :
              a \in DOMAIN out.item /\ out.item[a] = Source[a]
        /\ DOMAIN out.item \subseteq (DOMAIN Source \ RefAttributes) \cup AddedNames
        /\ DOMAIN out.item \cap (RefAttributes \cup Markers) = {}

\* The record of a Lot with two resolved references and further attributes
\* is handed over.
C28_Witness ==
    /\ pc = "yield"
    /\ RefAttributes = {"auction", "lotState"}
    /\ AuctionResolves /\ LotStateResolves
    /\ out.item["title"] = PyStr("chair")
    /\ DOMAIN out.item = {"__typename", "id", "title"} \cup AddedNames

\* A status attribute that is no reference is handed over as it is.
C28_PlainStatusReached ==
    /\ pc = "yield"
    /\ "lotState" \in DOMAIN Source
    /\ ~RefAt("lotState")
    /\ out.item["lotState"] = PyStr("OPEN")

(* ------------------------------- C29 ---------------------------------- *)
\* The cache with its entries in the order p, a permutation of 1..Len(c).
Permuted(c, p) == [i \in 1..Len(c) |-> c[p[i]]]

\* The keys of the Lot entries of a cache, in the order of the cache.
LotKeysOf(c) ==
    LET found == SelectSeq(c, is_lot_entry)
    IN [j \in 1..Len(found) |-> found[j].key]

\* The resolved record of the Lot entry stored under key in the cache c.
ResolvedOf(c, key) ==
    extract_lots_from_apollo(c)[CHOOSE j \in 1..Len(LotKeysOf(c)) : LotKeysOf(c)[j] = key]

\* Resolving the cache q, a reordering of c, gives one record per Lot entry
\* of q, in the order of q, each the same as resolving c gives for it.
SameResolution(c, q) ==
    LET out_q == extract_lots_from_apollo(q)
    IN /\ Len(out_q) = Len(LotKeysOf(q))
       /\ \A j \in 1..Len(out_q) : out_q[j] = ResolvedOf(c, LotKeysOf(q)[j])

\* The reorderings of n entries that are tried: the exchanges of two
\* entries, the rotations and the reversal (for n <= 3, every permutation).
Reorderings(n) ==
    {[i \in 1..n |-> IF i = a THEN b ELSE IF i = b THEN a ELSE i] : a, b \in 1..n}
    \cup {[i \in 1..n |-> ((i + r - 1) % n) + 1] : r \in 0..(n - 1)}
    \cup {[i \in 1..n |-> n + 1 - i]}

\* The caches whose reorderings are tried, and whether resolution gives the
\* same for each of them (computed once).
PermutedCaches == {ExampleCache, TwinCache, MixedCache, IdCache}

OrderIndependent ==
    [c \in PermutedCaches |->
        \A p \in Reorderings(Len(c)) : SameResolution(c, Permuted(c, p))]

\* C29: while a page is emitted, the lots resolved are those of the cache's
\* Lot entries in the order of the cache, and resolving a reordering of the
\* cache gives the same record for each Lot.
C29_OrderIndependent ==
    (pc \in {"emit", "yield"} /\ apollo_state \in PermutedCaches) =>
        /\ SameResolution(apollo_state, apollo_state)
        /\ lots = extract_lots_from_apollo(apollo_state)
        /\ OrderIndependent[apollo_state]

\* The same on the caches in which no two Auction entities answer to one
\* key: this form holds.
C29_OrderIndependentUnlessTwins ==
    (pc \in {"emit", "yield"} /\ apollo_state \in PermutedCaches \ {TwinCache}) =>
        /\ SameResolution(apollo_state, apollo_state)
        /\ lots = extract_lots_from_apollo(apollo_state)
        /\ OrderIndependent[apollo_state]

\* A Lot listed before the Auction it names is handed over with that
\* Auction inlined.
C29_ForwardReached ==
    /\ pc = "yield"
    /\ apollo_state = MixedCache
    /\ out.src = 1
    /\ out.item["auction_data"] = MixedCache[2].value

(* ------------------------------- C30 ---------------------------------- *)
\* The record of the run has the status that matches the way main ended:
\* "completed" for the return after the loop, "interrupted" for the return
\* of the interrupt branch, "failed" with one error more than the scraper
\* counted for the return of the exception branch.
StatusMatchesOutcome ==
    /\ RunRow.status \in {"completed", "interrupted", "failed"}
    /\ RunRow.status = "completed" <=> exit_code = 0
    /\ RunRow.status = "interrupted" <=> exit_code = 130
    /\ RunRow.status = "failed" <=> exit_code = 1
    /\ exit_code = 1 => RunRow.errors = stats.errors + 1

\* The status "completed" is written by this step.
WritesCompleted ==
    /\ run_id # 0
    /\ run_id' = run_id
    /\ scrape_runs # scrape_runs'
    /\ RunRow'.status = "completed"

C30_LeftRunningReached ==
    /\ mpc = "raised"
    /\ run_id # 0
    /\ RunRow.status = "running"

====
